---- MODULE Spec2Model ----
(***************************************************************************)
(* State-machine model of the Thunder session layer:                       *)
(*   - the Transport (createWebSocketClient): one current socket, the      *)
(*     connect timeout timer and the internal event bus;                   *)
(*   - the Session Protocol Client (createThunderSession): request ids,    *)
(*     sendRpc futures and waitForEvent waiters sharing one message bus;   *)
(*   - the Lifecycle Controller: start / stop / resume.                    *)
(* One JavaScript task (an API call with the microtasks it triggers, or    *)
(* one socket event with every listener and every promise continuation it  *)
(* runs) is one action.                                                    *)
(***************************************************************************)
EXTENDS Integers, Sequences, FiniteSets, TLC

VARIABLES
    jsonRpcId,   \* config.jsonRpcId, the seed of the request ids
    messageId,   \* the session's id counter
    sockets,     \* every WebSocket the transport created, in creation order
    socket,      \* the transport's current socket (index in sockets), 0 = null
    timeoutId,   \* the transport's timeoutId (index of the socket whose connect armed it), 0 = undefined
    frames,      \* every request frame the session built, in order, with the outcome of its send
    futures,     \* every sendRpc / waitForEvent promise, in creation order
    handlers,    \* the 'message' listeners on the transport's event bus (indices in futures), in order
    ops,         \* every start() / stop() / resume() call, in call order
    posts,       \* every HTTP request setURL() issued, in order, with the promise setURL() returned
    ws,          \* the Debug Feed Client's transport (index in transports), 0 = null
    transports,  \* every transport the Debug Feed Client created, in creation order
    feedSent,    \* every frame the Debug Feed Client passed to send(), in order
    feedCalls,   \* every invocation of the Debug Feed Client's onMessage callback, in order
    feedInbox,   \* every payload handleMessage was invoked with, in order
    thunderSession,  \* the orchestrator's session (index of the session created), 0 = null
    webInspector,    \* the orchestrator's inspector (index of the inspector created), 0 = null
    sessionsCreated, \* how many session / inspector pairs the orchestrator created
    orchCalls        \* every start() / launch() / close() / quit() call, in call order, each with
                     \* its onEvent invocations and the collaborator methods it invoked

sessionVars == <<jsonRpcId, messageId, sockets, socket, timeoutId, frames, futures, handlers, ops, posts>>

feedVars == <<ws, transports, feedSent, feedCalls, feedInbox>>

orchVars == <<thunderSession, webInspector, sessionsCreated, orchCalls>>

vars == <<sessionVars, feedVars, orchVars>>

----------------------------------------------------------------------------
(* Bounds of the model *)

MaxSockets == 2     \* connect() calls
MaxOps == 2         \* start()/stop()/resume() calls
MaxWaits == 1       \* direct waitForEvent() calls
OneSocket == 1
OneOp == 1
MaxWaiters == 2
OtherSeed == 3      \* a configured seed other than the default
MaxPosts == 2       \* setURL() calls

(* Program constants *)

DefaultSeed == 1
Callsign == "UX"
EventsAll == "client.Controller.events.all"
Urls == {"http://a", "http://b"}

----------------------------------------------------------------------------
(* JSON values and inbound payloads *)

EmptyObj == [key \in {} |-> ""]

Has(obj, field) == field \in DOMAIN obj

Range(seq) == {seq[i] : i \in DOMAIN seq}

NoVal == [k |-> "none"]

JNumZero == [t |-> "zero", arr |-> <<>>]
JFalse == [t |-> "false", arr |-> <<>>]
JNull == [t |-> "null", arr |-> <<>>]
JEmptyStr == [t |-> "emptystr", arr |-> <<>>]
JObject == [t |-> "object", arr |-> <<>>]
JArray(entries) == [t |-> "array", arr |-> entries]

Entry(cs, st) == [callsign |-> cs, state |-> st]

\* JavaScript truthiness of a JSON value (the left operand of ||)
Truthy(v) == v.t \notin {"zero", "false", "null", "emptystr"}

----------------------------------------------------------------------------
(* The inbound payloads (event.detail) the model delivers.  A payload is   *)
(* a record whose k says what JSON.parse makes of the text; an "object"    *)
(* payload carries exactly the members the frame has.                      *)

Empty == [k |-> "empty"]        \* '' : falsy detail
Garbage == [k |-> "garbage"]    \* text JSON.parse throws on
NullText == [k |-> "null"]      \* 'null' : parses, every member access throws
Scalar == [k |-> "scalar"]      \* '5' : parses, every member is undefined

States == {"Deactivated", "Activated", "Suspended", "Resumed"}

StatusArrays ==
    {JArray(<<>>), JArray(<<Entry("Other", "Activated")>>),
     JArray(<<Entry("Other", "Activated"), Entry(Callsign, "Deactivated")>>)}
    \cup {JArray(<<Entry(Callsign, st)>>) : st \in States}

Results == {JNumZero, JFalse, JNull, JEmptyStr, JObject} \cup StatusArrays

Response(id, result) == [k |-> "object", id |-> id, result |-> result]

ErrorResponse(id) == [k |-> "object", id |-> id, error |-> JObject]

Responses(ids) ==
    {Response(id, r) : id \in ids, r \in Results} \cup {ErrorResponse(id) : id \in ids}

EventTypes == {"statechange", "urlchange"}

Methods == {EventsAll, "other.method"}

\* the parameter maps of the notifications: every map over a subset of these keys
ParamValues == [state |-> {"activated", "deactivated"}, suspended |-> {"false"}]

ParamMaps ==
    UNION {[keys -> UNION {ParamValues[key] : key \in keys}] : keys \in SUBSET DOMAIN ParamValues}

WellTyped(pm) == \A key \in DOMAIN pm : pm[key] \in ParamValues[key]

Notifications ==
    {[k |-> "object", method |-> m, params |-> [event |-> e, params |-> pm]] :
        m \in Methods, e \in EventTypes, pm \in {x \in ParamMaps : WellTyped(x)}}
    \cup {[k |-> "object", method |-> m, params |-> [event |-> e]] : m \in Methods, e \in EventTypes}
    \cup {[k |-> "object", method |-> m] : m \in Methods}

\* the match maps of the direct waitForEvent() calls
MatchParams ==
    {EmptyObj, [state |-> "activated"], [state |-> "activated", suspended |-> "false"]}

----------------------------------------------------------------------------
(* Transport: createWebSocketClient *)

\* a socket as connect() creates it: rs is its readyState, connected the closure
\* variable of that connect() call, fut the promise connect() returned ("failed"
\* and "timedout" are its two rejections), timer the timer that call armed,
\* attached whether onOpen/onError/onClose/onMessage are its listeners, closes
\* the number of socket.close() calls made on it
NewSocket ==
    [rs |-> "CONNECTING", connected |-> FALSE, fut |-> "pending", timer |-> "armed",
     attached |-> TRUE, closes |-> 0]

\* a promise that takes every settlement, also after the first
SettleAgain(fut, outcome) == outcome

\* resolve() / reject() of the connect promise: only the first call settles it
Settle(fut, outcome) == IF fut = "pending" THEN outcome ELSE fut

\* a close() that leaves the socket as it is
SocketCloseNoop(rs) == rs

\* WebSocket.close(): an open or connecting socket starts closing
SocketClose(rs) == IF rs \in {"CONNECTING", "OPEN"} THEN "CLOSING" ELSE rs

\* socket.removeEventListener(type, () => {}): the listener given is a new
\* function, never the registered one, so the registered one stays
RemoveListener(attached) == attached

\* a close() that keeps the socket reference
WsCloseKeepRef(sks, sk) ==
    IF sk # 0
    THEN [sockets |-> [sks EXCEPT ![sk].rs = SocketClose(@), ![sk].closes = @ + 1], socket |-> sk]
    ELSE [sockets |-> sks, socket |-> sk]

\* close(): [sockets, socket] after it
WsClose(sks, sk) ==
    IF sk # 0
    THEN [sockets |-> [sks EXCEPT ![sk].attached = RemoveListener(@), ![sk].rs = SocketClose(@),
                                  ![sk].closes = @ + 1],
          socket |-> 0]
    ELSE [sockets |-> sks, socket |-> sk]

\* a send() that also takes data while the socket is connecting
WsCanSendEarly(sks, sk) == sk # 0 /\ sks[sk].rs \in {"CONNECTING", "OPEN"}

\* send(data) succeeds iff a socket exists and is OPEN; otherwise it throws
WsCanSend(sks, sk) == sk # 0 /\ sks[sk].rs = "OPEN"

\* isConnected()
WsIsConnected(sks, sk) == sk # 0 /\ sks[sk].rs = "OPEN"

\* on(event, handler): one more listener on the bus
On(hs, h) == Append(hs, h)

\* an off() that removes the handler
OffRemoving(hs, h) == SelectSeq(hs, LAMBDA x : x # h)

\* off(event, handler): removeEventListener is given a new arrow function,
\* which was never added, so the bus keeps every listener
Off(hs, h) == hs

----------------------------------------------------------------------------
(* Session Protocol Client: createThunderSession *)

\* nextId() without the increment
nextIdStale(m) == [id |-> m, messageId |-> m]

\* nextId(): return messageId++
nextId(m) == [id |-> m, messageId |-> m + 1]

Frame(id, method, cs, op, ok) == [id |-> id, method |-> method, callsign |-> cs, op |-> op, ok |-> ok]

RpcFuture(id, st) ==
    [kind |-> "rpc", id |-> id, evt |-> "", mp |-> EmptyObj, st |-> st, val |-> NoVal, by |-> NoVal]

WaitFuture(evt, mp) ==
    [kind |-> "wait", id |-> 0, evt |-> evt, mp |-> mp, st |-> "pending", val |-> NoVal, by |-> NoVal]

\* val and by hold what a promise was settled with while the task that settled
\* it is the latest one: every continuation reads the value in that task, and
\* the model drops it when the next task starts
Forget(fs) == [i \in DOMAIN fs |-> [fs[i] EXCEPT !.val = NoVal, !.by = NoVal]]

\* the session state at the start of a task, which the operations below transform
Session ==
    [messageId |-> messageId, frames |-> frames, futures |-> Forget(futures),
     handlers |-> handlers, ops |-> ops]

\* a request frame is built with the next id and handed to send(); open says
\* whether send() succeeds
BuildAndSend(S, method, cs, op, open) ==
    LET n == nextId(S.messageId)
    IN  [S EXCEPT !.messageId = n.messageId,
                  !.frames = Append(@, Frame(n.id, method, cs, op, open))]

\* sendRpc(method, params): the executor takes the id, sends, then registers
\* its message listener; when send() throws the promise is rejected and no
\* listener is registered
sendRpc(S, method, cs, op, open) ==
    LET n == nextId(S.messageId)
        S1 == BuildAndSend(S, method, cs, op, open)
        f == Len(S.futures) + 1
    IN  IF open
        THEN [S1 EXCEPT !.futures = Append(@, RpcFuture(n.id, "pending")),
                        !.handlers = On(@, f)]
        ELSE [S1 EXCEPT !.futures = Append(@, RpcFuture(n.id, "rejected"))]

\* waitForEvent(eventType, matchParams): registers handleEvent
waitForEvent(S, evt, mp) ==
    [S EXCEPT !.futures = Append(@, WaitFuture(evt, mp)),
              !.handlers = On(@, Len(S.futures) + 1)]

Resolve(f, v, p) == IF f.st = "pending" THEN [f EXCEPT !.st = "resolved", !.val = v, !.by = p] ELSE f

Reject(f, p) == IF f.st = "pending" THEN [f EXCEPT !.st = "rejected", !.by = p] ELSE f

\* a listener that takes any response for its own
IdMatchesAny(f, p) == Has(p, "id")

\* response.id === id
IdMatches(f, p) == Has(p, "id") /\ p.id = f.id

\* response.result || response
ResultOrResponse(p) == IF Has(p, "result") /\ Truthy(p.result) THEN p.result ELSE p

\* a listener that lets a payload it cannot parse pass
rpcHandlerLenient(f, p) ==
    IF p.k = "object" /\ IdMatches(f, p) THEN Resolve(f, ResultOrResponse(p), p) ELSE f

\* a listener that rejects on a response with an error member
rpcHandlerStrict(f, p) ==
    IF p.k = "empty" THEN f
    ELSE IF p.k \in {"garbage", "null"} THEN Reject(f, p)
    ELSE IF p.k = "object" /\ IdMatches(f, p)
    THEN IF Has(p, "error") THEN Reject(f, p) ELSE Resolve(f, ResultOrResponse(p), p)
    ELSE f

\* the message listener of sendRpc, applied to its own promise
rpcHandler(f, p) ==
    IF p.k = "empty" THEN f
    ELSE IF p.k \in {"garbage", "null"} THEN Reject(f, p)
    ELSE IF p.k = "object" /\ IdMatches(f, p) THEN Resolve(f, ResultOrResponse(p), p)
    ELSE f

\* response.method === 'client.Controller.events.all' || response.params.event === eventType
\* (evaluated for an object payload that has params whenever it is not on the channel)
EventMatches(f, p) ==
    (Has(p, "method") /\ p.method = EventsAll)
    \/ (Has(p.params, "event") /\ p.params.event = f.evt)

\* a comparison that lets a key the notification lacks pass
ParamEqualsOrMissing(pp, key, value) == ~Has(pp, key) \/ pp[key] = value

\* response.params.params[key] === value
ParamEquals(pp, key, value) == Has(pp, key) /\ pp[key] = value

\* what handleEvent of waitForEvent does with a payload:
\*   "ignore"  it returns, "throw" the catch block runs, "resolve" it matched
waitOutcome(f, p) ==
    IF p.k = "empty" THEN "ignore"
    ELSE IF p.k \in {"garbage", "null", "scalar"} THEN "throw"
    ELSE IF ~(Has(p, "method") /\ p.method = EventsAll) /\ ~Has(p, "params") THEN "throw"
    ELSE IF ~EventMatches(f, p) THEN "ignore"
    ELSE IF DOMAIN f.mp = {} THEN "resolve"
    ELSE IF ~Has(p, "params") \/ ~Has(p.params, "params") THEN "throw"
    ELSE IF \A key \in DOMAIN f.mp : ParamEquals(p.params.params, key, f.mp[key]) THEN "resolve"
    ELSE "ignore"

\* handleEvent applied to its own promise
waitHandler(f, p) == IF waitOutcome(f, p) = "resolve" THEN Resolve(f, p, p) ELSE f

\* handleEvent calls wsClient.off('message', handleEvent) when it matched and
\* in its catch block
CallsOff(f, p) == f.kind = "wait" /\ waitOutcome(f, p) \in {"resolve", "throw"}

handle(f, p) == IF f.kind = "rpc" THEN rpcHandler(f, p) ELSE waitHandler(f, p)

RECURSIVE OffAll(_, _, _)
\* the off() calls of one dispatch, in listener order
OffAll(hs, fs, p) ==
    IF hs = <<>> THEN <<>>
    ELSE LET rest == OffAll(Tail(hs), fs, p)
         IN  IF CallsOff(fs[Head(hs)], p)
             THEN Off(<<Head(hs)>> \o rest, Head(hs))
             ELSE <<Head(hs)>> \o rest

----------------------------------------------------------------------------
(* Lifecycle Controller: stop / start / resume *)

Kinds == {"start", "stop", "resume"}

TransitionMethod(kind) ==
    CASE kind = "start" -> "Controller.1.activate"
      [] kind = "stop" -> "Controller.1.deactivate"
      [] kind = "resume" -> "Controller.1.resume"

\* start() that treats only Activated as its target
TargetsNarrow(kind) ==
    CASE kind = "start" -> {"Activated"}
      [] kind = "stop" -> {"Deactivated"}
      [] kind = "resume" -> {"Activated", "Resumed"}

\* the states in which the operation resolves at once
Targets(kind) ==
    CASE kind = "start" -> {"Activated", "Resumed"}
      [] kind = "stop" -> {"Deactivated"}
      [] kind = "resume" -> {"Activated", "Resumed"}

\* match maps that also name the configured plugin
ConfirmOwn(kind) ==
    CASE kind = "start" -> [state |-> "activated", callsign |-> Callsign]
      [] kind = "stop" -> [state |-> "deactivated", callsign |-> Callsign]
      [] kind = "resume" -> [suspended |-> "false", callsign |-> Callsign]

\* the matchParams of the operation's waitForEvent('statechange', ...)
Confirm(kind) ==
    CASE kind = "start" -> [state |-> "activated"]
      [] kind = "stop" -> [state |-> "deactivated"]
      [] kind = "resume" -> [suspended |-> "false"]

NewOp(kind, statusFut, pc) ==
    [kind |-> kind, pc |-> pc, statusFut |-> statusFut, waitFut |-> 0, ackFut |-> 0,
     state |-> "", out |-> "pending", sent |-> FALSE, seen |-> FALSE]

\* a lookup that takes the first entry whatever its callsign
getStateFirst(val) ==
    IF Has(val, "t") /\ val.t = "array" /\ val.arr # <<>>
    THEN [ok |-> TRUE, state |-> Head(val.arr).state]
    ELSE [ok |-> FALSE, state |-> ""]

\* getState(): result.filter((instance) => instance.callsign === callsign)[0].state
\* ok is FALSE when the expression throws
getState(val) ==
    IF Has(val, "t") /\ val.t = "array"
    THEN LET mine == SelectSeq(val.arr, LAMBDA e : e.callsign = Callsign)
         IN  IF mine # <<>> THEN [ok |-> TRUE, state |-> Head(mine).state]
             ELSE [ok |-> FALSE, state |-> ""]
    ELSE [ok |-> FALSE, state |-> ""]

\* the operation is called: the executor runs up to await getState()
callOp(S, kind, open) ==
    LET S1 == sendRpc(S, "Controller.1.status", "", Len(S.ops) + 1, open)
    IN  [S1 EXCEPT !.ops = Append(@, NewOp(kind, Len(S.futures) + 1, IF open THEN "status" ELSE "dead"))]

\* a transition that sends its request without a waiter registered
transitionUnarmed(S, i, open) ==
    LET S2 == sendRpc(S, TransitionMethod(S.ops[i].kind), Callsign, i, open)
    IN  [S2 EXCEPT !.ops[i].pc = "confirm",
                   !.ops[i].ackFut = Len(S.futures) + 1,
                   !.ops[i].sent = open]

\* past the state check: waitForEvent(...).then(resolve), then await sendRpc(...)
transition(S, i, open) ==
    LET kind == S.ops[i].kind
        S1 == waitForEvent(S, "statechange", Confirm(kind))
        S2 == sendRpc(S1, TransitionMethod(kind), Callsign, i, open)
    IN  [S2 EXCEPT !.ops[i].pc = "confirm",
                   !.ops[i].waitFut = Len(S.futures) + 1,
                   !.ops[i].ackFut = Len(S1.futures) + 1,
                   !.ops[i].sent = open]

\* an executor that gives way while another operation awaits its confirmation
afterStateExclusive(S, i, open) ==
    LET op == S.ops[i]
        g == getState(S.futures[op.statusFut].val)
    IN  IF ~g.ok THEN [S EXCEPT !.ops[i].pc = "dead"]
        ELSE IF g.state \in Targets(op.kind)
        THEN [S EXCEPT !.ops[i].pc = "noop", !.ops[i].state = g.state, !.ops[i].out = "resolved"]
        ELSE IF \E j \in DOMAIN S.ops : j # i /\ S.ops[j].pc = "confirm"
        THEN [S EXCEPT !.ops[i].pc = "dead", !.ops[i].state = g.state]
        ELSE transition([S EXCEPT !.ops[i].state = g.state], i, open)

\* the executor after await getState()
afterState(S, i, open) ==
    LET op == S.ops[i]
        g == getState(S.futures[op.statusFut].val)
    IN  IF ~g.ok THEN [S EXCEPT !.ops[i].pc = "dead"]
        ELSE IF g.state \in Targets(op.kind)
        THEN [S EXCEPT !.ops[i].pc = "noop", !.ops[i].state = g.state, !.ops[i].out = "resolved"]
        ELSE transition([S EXCEPT !.ops[i].state = g.state], i, open)

\* the promise continuations of operation i that the settled futures release
resumeOp(S, i, open) ==
    LET op == S.ops[i]
    IN  IF op.pc = "status"
        THEN CASE S.futures[op.statusFut].st = "pending" -> S
               [] S.futures[op.statusFut].st = "rejected" -> [S EXCEPT !.ops[i].pc = "dead"]
               [] S.futures[op.statusFut].st = "resolved" -> afterState(S, i, open)
        ELSE IF op.pc = "confirm" /\ op.waitFut # 0 /\ S.futures[op.waitFut].st = "resolved"
        THEN [S EXCEPT !.ops[i].pc = "done", !.ops[i].out = "resolved"]
        ELSE S

RECURSIVE RunOps(_, _, _)
RunOps(S, i, open) == IF i > Len(S.ops) THEN S ELSE RunOps(resumeOp(S, i, open), i + 1, open)

\* the confirmation each operation waits for: a statechange notification on the
\* events channel with state activated (start), state deactivated (stop),
\* suspended false (resume)
IsConfirmation(kind, p) ==
    /\ p.k = "object" /\ Has(p, "method") /\ p.method = EventsAll
    /\ Has(p, "params") /\ Has(p.params, "event") /\ p.params.event = "statechange"
    /\ Has(p.params, "params")
    /\ \/ kind = "start" /\ Has(p.params.params, "state") /\ p.params.params.state = "activated"
       \/ kind = "stop" /\ Has(p.params.params, "state") /\ p.params.params.state = "deactivated"
       \/ kind = "resume" /\ Has(p.params.params, "suspended") /\ p.params.params.suspended = "false"

\* one dispatch of a 'message' event on the bus: every listener, then the
\* continuations.  seen records, for an operation waiting for its confirmation,
\* that the confirmation was delivered
dispatch(S, p, open) ==
    LET fs == [i \in DOMAIN S.futures |->
                  IF i \in Range(S.handlers) THEN handle(S.futures[i], p) ELSE S.futures[i]]
        os == [i \in DOMAIN S.ops |->
                  [S.ops[i] EXCEPT !.seen = @ \/ (S.ops[i].pc = "confirm"
                                                   /\ IsConfirmation(S.ops[i].kind, p))]]
    IN  RunOps([S EXCEPT !.futures = fs, !.handlers = OffAll(S.handlers, S.futures, p), !.ops = os],
               1, open)

----------------------------------------------------------------------------
(* Actions *)

SetSession(S) ==
    /\ messageId' = S.messageId
    /\ frames' = S.frames
    /\ futures' = S.futures
    /\ handlers' = S.handlers
    /\ ops' = S.ops

Init ==
    /\ jsonRpcId \in {DefaultSeed, OtherSeed}
    /\ messageId = jsonRpcId
    /\ sockets = <<>>
    /\ socket = 0
    /\ timeoutId = 0
    /\ frames = <<>>
    /\ futures = <<>>
    /\ handlers = <<>>
    /\ ops = <<>>
    /\ posts = <<>>
    /\ ws = 0
    /\ transports = <<>>
    /\ feedSent = <<>>
    /\ feedCalls = <<>>
    /\ feedInbox = <<>>
    /\ thunderSession = 0
    /\ webInspector = 0
    /\ sessionsCreated = 0
    /\ orchCalls = <<>>

\* session connect(): wsClient.connect() up to the returned promise
Connect(limit) ==
    /\ Len(sockets) < limit
    /\ LET c == WsClose(sockets, socket)
       IN  /\ sockets' = Append(c.sockets, NewSocket)
           /\ socket' = Len(sockets) + 1
           /\ timeoutId' = Len(sockets) + 1
    /\ SetSession(Session)
    /\ UNCHANGED <<orchVars, feedVars, posts, jsonRpcId>>

\* the socket's open event: onOpen, then the continuation of session connect()
\* (the Controller.1.register frame)
SocketOpen(s) ==
    /\ sockets[s].rs = "CONNECTING" /\ sockets[s].attached
    /\ LET cleared == IF timeoutId # 0 /\ sockets[timeoutId].timer = "armed"
                      THEN [sockets EXCEPT ![timeoutId].timer = "cleared"]
                      ELSE sockets
           opened == [cleared EXCEPT ![s].rs = "OPEN", ![s].connected = TRUE,
                                     ![s].fut = Settle(@, "resolved")]
       IN  /\ sockets' = opened
           /\ IF sockets[s].fut = "pending"
              THEN SetSession(BuildAndSend(Session, "Controller.1.register", "", 0,
                                           WsCanSend(opened, socket)))
              ELSE SetSession(Session)
    /\ UNCHANGED <<orchVars, feedVars, posts, jsonRpcId, socket, timeoutId>>

\* the socket's error event (and the close event after it): onError
SocketError(s) ==
    /\ sockets[s].rs # "CLOSED" /\ sockets[s].attached
    /\ sockets' = [sockets EXCEPT ![s].rs = "CLOSED",
                                  ![s].fut = IF sockets[s].connected THEN @ ELSE Settle(@, "failed")]
    /\ SetSession(Session)
    /\ UNCHANGED <<orchVars, feedVars, posts, jsonRpcId, socket, timeoutId>>

\* the socket's close event without an error: onClose
SocketClosed(s) ==
    /\ sockets[s].rs \in {"OPEN", "CLOSING"}
    /\ sockets' = [sockets EXCEPT ![s].rs = "CLOSED"]
    /\ SetSession(Session)
    /\ UNCHANGED <<orchVars, feedVars, posts, jsonRpcId, socket, timeoutId>>

\* the timeout callback of the connect() that created socket s
TimerFire(s) ==
    /\ sockets[s].timer = "armed"
    /\ LET fired == [sockets EXCEPT ![s].timer = "fired"]
           c == WsClose(fired, socket)
       IN  IF ~sockets[s].connected
           THEN /\ sockets' = [c.sockets EXCEPT ![s].fut = Settle(@, "timedout")]
                /\ socket' = c.socket
           ELSE /\ sockets' = fired
                /\ socket' = socket
    /\ SetSession(Session)
    /\ UNCHANGED <<orchVars, feedVars, posts, jsonRpcId, timeoutId>>

\* a disconnect() that rejects what is in flight
DisconnectRejecting ==
    /\ LET c == WsClose(sockets, socket)
       IN  /\ sockets' = c.sockets
           /\ socket' = c.socket
    /\ SetSession([Session EXCEPT !.futures = [i \in DOMAIN @ |-> Reject(@[i], NoVal)]])
    /\ UNCHANGED <<orchVars, feedVars, posts, jsonRpcId, timeoutId>>

\* session disconnect(): wsClient.close()
Disconnect ==
    /\ LET c == WsClose(sockets, socket)
       IN  /\ sockets' = c.sockets
           /\ socket' = c.socket
    /\ SetSession(Session)
    /\ UNCHANGED <<orchVars, feedVars, posts, jsonRpcId, timeoutId>>

\* start() / stop() / resume() is called
CallOp(kind, limit) ==
    /\ Len(ops) < limit
    /\ SetSession(callOp(Session, kind, WsCanSend(sockets, socket)))
    /\ UNCHANGED <<orchVars, feedVars, posts, jsonRpcId, sockets, socket, timeoutId>>

\* waitForEvent(eventType, matchParams) is called by the session's user
WaitForEvent(evt, mp, limit) ==
    /\ Cardinality({i \in DOMAIN futures : futures[i].kind = "wait"
                       /\ \A j \in DOMAIN ops : ops[j].waitFut # i}) < limit
    /\ SetSession(waitForEvent(Session, evt, mp))
    /\ UNCHANGED <<orchVars, feedVars, posts, jsonRpcId, sockets, socket, timeoutId>>

\* setURL(newUrl) over the socket, as the source's disabled lines have it
setURLOverSocket(S, url, open) ==
    sendRpc(waitForEvent(S, "urlchange", EmptyObj), "WebKitBrowser.1.url", "", 0, open)

\* what setURL(newUrl) does to the session: nothing, it talks HTTP only
setURL(S, url, open) == S

\* fetch(`http://${config.host}/Service/${callsign}/URL`, {method: 'POST', body: {url}})
Post(url) ==
    [method |-> "POST", callsign |-> Callsign, url |-> url, http |-> "pending",
     out |-> "pending", settles |-> 0]

\* resolve() or reject() of the promise setURL() returned
SettlePost(post, http, outcome) ==
    [post EXCEPT !.http = http, !.out = Settle(@, outcome), !.settles = @ + 1]

\* setURL(newUrl) is called
SetURL(url, limit) ==
    /\ Len(posts) < limit
    /\ SetSession(setURL(Session, url, WsCanSend(sockets, socket)))
    /\ posts' = Append(posts, Post(url))
    /\ UNCHANGED <<orchVars, feedVars, jsonRpcId, sockets, socket, timeoutId>>

\* the HTTP response arrives: .then() resolves when response.ok, otherwise it
\* throws into .catch(), which rejects
HttpResponse(n, ok) ==
    /\ posts[n].http = "pending"
    /\ posts' = [posts EXCEPT ![n] = IF ok THEN SettlePost(@, "ok", "resolved")
                                             ELSE SettlePost(@, "notok", "rejected")]
    /\ SetSession(Session)
    /\ UNCHANGED <<orchVars, feedVars, jsonRpcId, sockets, socket, timeoutId>>

\* the request fails (fetch rejects): .catch() rejects
HttpFailure(n) ==
    /\ posts[n].http = "pending"
    /\ posts' = [posts EXCEPT ![n] = SettlePost(@, "failed", "rejected")]
    /\ SetSession(Session)
    /\ UNCHANGED <<orchVars, feedVars, jsonRpcId, sockets, socket, timeoutId>>

\* the ids of the requests whose promise is pending, and the id not issued yet
\* (a response to any other id finds no pending request, like the latter)
ResponseIds ==
    {futures[h].id : h \in {x \in Range(handlers) : futures[x].kind = "rpc" /\ futures[x].st = "pending"}}
    \cup {messageId}

NonObjects == {Empty, Garbage, NullText, Scalar}

Notification(m, e, pm) == [k |-> "object", method |-> m, params |-> [event |-> e, params |-> pm]]

\* every payload of the model
Payloads == NonObjects \cup Notifications \cup Responses(ResponseIds)

\* the payloads of the request/response runs: unparsable text, a notification
\* and, for every id, an error response and a falsy, an object and two status results
RpcPayloads ==
    {Garbage, Notification(EventsAll, "statechange", [state |-> "activated"])}
    \cup {ErrorResponse(id) : id \in ResponseIds}
    \cup {Response(id, r) : id \in ResponseIds,
                            r \in {JNumZero, JObject, JArray(<<Entry(Callsign, "Deactivated")>>),
                                   JArray(<<Entry(Callsign, "Activated")>>)}}

\* the socket's message event: onMessage dispatches it on the bus.  A socket
\* that was opened receives messages until it is closed, also while closing
Deliver(s, p) ==
    /\ sockets[s].connected /\ sockets[s].rs \in {"OPEN", "CLOSING"} /\ sockets[s].attached
    /\ SetSession(dispatch(Session, p, WsCanSend(sockets, socket)))
    /\ UNCHANGED <<orchVars, feedVars, posts, jsonRpcId, sockets, socket, timeoutId>>

\* the transport's part of every run: connect and disconnect calls and the
\* events of the sockets
Transport(limit) ==
    \/ Connect(limit)
    \/ \E s \in DOMAIN sockets : SocketOpen(s)
    \/ \E s \in DOMAIN sockets : SocketError(s)
    \/ \E s \in DOMAIN sockets : SocketClosed(s)
    \/ \E s \in DOMAIN sockets : TimerFire(s)
    \/ Disconnect

Next ==
    \/ Transport(MaxSockets)
    \/ \E kind \in Kinds : CallOp(kind, MaxOps)
    \/ \E evt \in EventTypes, mp \in MatchParams : WaitForEvent(evt, mp, MaxWaits)
    \/ \E s \in DOMAIN sockets, p \in Payloads : Deliver(s, p)

\* the whole session layer under every input of the model
Spec == Init /\ [][Next]_vars

\* request/response correlation: overlapping lifecycle calls (the callers of
\* sendRpc) and the responses to their requests in any order
NextRpc ==
    \/ Transport(OneSocket)
    \/ \E kind \in Kinds : CallOp(kind, MaxOps)
    \/ \E s \in DOMAIN sockets, p \in RpcPayloads : Deliver(s, p)

SpecRpc == Init /\ [][NextRpc]_vars

\* request ids: a lifecycle call across connects, disconnects and reconnects
NextIds ==
    \/ Transport(MaxSockets)
    \/ \E kind \in Kinds : CallOp(kind, OneOp)
    \/ \E s \in DOMAIN sockets, p \in RpcPayloads : Deliver(s, p)

SpecIds == Init /\ [][NextIds]_vars

\* one lifecycle operation under every payload
NextOp ==
    \/ Transport(OneSocket)
    \/ \E kind \in Kinds : CallOp(kind, OneOp)
    \/ \E s \in DOMAIN sockets, p \in Payloads : Deliver(s, p)

SpecOp == Init /\ [][NextOp]_vars

\* event waiters: waitForEvent() calls under every payload
NextWait ==
    \/ Transport(OneSocket)
    \/ \E evt \in EventTypes, mp \in MatchParams : WaitForEvent(evt, mp, MaxWaiters)
    \/ \E s \in DOMAIN sockets, p \in Payloads : Deliver(s, p)

SpecWait == Init /\ [][NextWait]_vars

\* the transport under every order of connect, disconnect, socket events and
\* timers, with the lifecycle calls as the senders
NextTransport ==
    \/ Transport(MaxSockets)
    \/ \E kind \in Kinds : CallOp(kind, MaxOps)

SpecTransport == Init /\ [][NextTransport]_vars

\* the payloads of the overlap runs: three notifications on the events channel
\* (the confirmations of start and stop, and an activated report of another
\* event type) and, for every id, a status result and an acknowledgement
MixPayloads ==
    {Notification(EventsAll, "statechange", [state |-> "activated"]),
     Notification(EventsAll, "statechange", [state |-> "deactivated"]),
     Notification(EventsAll, "urlchange", [state |-> "activated"])}
    \cup {Response(id, r) : id \in ResponseIds,
                            r \in {JObject, JArray(<<Entry(Callsign, "Deactivated")>>)}}

\* setURL() calls at every state of the transport, with a lifecycle operation
\* as the other user of the socket
NextUrl ==
    \/ Transport(OneSocket)
    \/ \E kind \in Kinds : CallOp(kind, OneOp)
    \/ \E url \in Urls : SetURL(url, MaxPosts)
    \/ \E n \in DOMAIN posts, ok \in BOOLEAN : HttpResponse(n, ok)
    \/ \E n \in DOMAIN posts : HttpFailure(n)

SpecUrl == Init /\ [][NextUrl]_vars

Plugins == {Callsign, "Other"}

\* a statechange notification that names the plugin it reports on, beside the
\* event type and among the parameters
PluginNotification(cs, key, value) ==
    [k |-> "object", method |-> EventsAll,
     params |-> [event |-> "statechange", callsign |-> cs,
                 params |-> [x \in {key, "callsign"} |-> IF x = key THEN value ELSE cs]]]

PluginNotifications ==
    {PluginNotification(cs, "state", v) : cs \in Plugins, v \in {"activated", "deactivated"}}
    \cup {PluginNotification(cs, "suspended", "false") : cs \in Plugins}

\* the payloads of the plugin runs: the state reports of two plugins and, for
\* every id, an acknowledgement and two status results
PluginPayloads ==
    PluginNotifications
    \cup {Response(id, r) : id \in ResponseIds,
                            r \in {JObject, JArray(<<Entry(Callsign, "Deactivated")>>),
                                   JArray(<<Entry(Callsign, "Suspended")>>)}}

\* one lifecycle operation while two plugins report their state
NextPlugin ==
    \/ Transport(OneSocket)
    \/ \E kind \in Kinds : CallOp(kind, OneOp)
    \/ \E s \in DOMAIN sockets, p \in PluginPayloads : Deliver(s, p)

SpecPlugin == Init /\ [][NextPlugin]_vars

\* overlapping lifecycle calls whose waiters and requests are pending together
NextMix ==
    \/ Transport(OneSocket)
    \/ \E kind \in Kinds : CallOp(kind, MaxOps)
    \/ \E s \in DOMAIN sockets, p \in MixPayloads : Deliver(s, p)

SpecMix == Init /\ [][NextMix]_vars

----------------------------------------------------------------------------
(* Request / response correlation *)

RpcFutures == {i \in DOMAIN futures : futures[i].kind = "rpc"}

WaitFutures == {i \in DOMAIN futures : futures[i].kind = "wait"}

\* the promises settled by the latest task
JustResolved(i) == futures[i].st = "resolved" /\ futures[i].by # NoVal

\* C1: whatever requests are pending and in whatever order the responses
\* arrive, a sendRpc promise is resolved only by an object frame that carries
\* exactly the id of its request (so never by a notification, which has no
\* id), and one inbound frame resolves at most one request promise.
C1_ResolvedByOwnId ==
    /\ \A i \in RpcFutures :
          JustResolved(i) =>
             /\ futures[i].by.k = "object"
             /\ Has(futures[i].by, "id")
             /\ futures[i].by.id = futures[i].id
    /\ Cardinality({i \in RpcFutures : JustResolved(i)}) <= 1

\* two requests were pending at once and the later one was answered first
C1_Witness ==
    \E i, j \in RpcFutures :
        /\ i < j
        /\ i \in Range(handlers) /\ futures[i].st = "pending"
        /\ JustResolved(j)

\* C2: the ids of the request frames a session builds (the register frame of
\* connect() and every sendRpc frame, also one whose send fails) start at the
\* configured seed and strictly increase, so none is issued twice, also
\* across a disconnect and a new connect.
C2_IdsStrictlyIncrease ==
    /\ frames # <<>> => frames[1].id = jsonRpcId
    /\ \A i, j \in DOMAIN frames : i < j => frames[i].id < frames[j].id
    /\ \A i \in DOMAIN frames : frames[i].id < messageId

\* ids were issued to a register frame, to a request, to a request whose send
\* failed, and to the register frame of a reconnect
C2_Witness ==
    \E i, j, k \in DOMAIN frames :
        /\ i < j /\ j < k
        /\ frames[i].method = "Controller.1.register"
        /\ ~frames[j].ok
        /\ frames[k].method = "Controller.1.register"

\* C3: a response whose id is that of a pending request resolves the promise
\* with exactly the value of its result member, whatever that value is (0,
\* false, null and the empty string included), never with the response object.
C3_ResolvesWithResult ==
    \A i \in RpcFutures :
        (JustResolved(i) /\ Has(futures[i].by, "result")) => futures[i].val = futures[i].by.result

----------------------------------------------------------------------------
(* Event waiters *)

\* the notification's parameter map has every key of the match map with an
\* equal value
SupersetMatch(mp, p) ==
    \A key \in DOMAIN mp :
        /\ Has(p, "params") /\ Has(p.params, "params")
        /\ Has(p.params.params, key)
        /\ p.params.params[key] = mp[key]

\* a notification on the events channel whose event type is evt
OfEventType(evt, p) ==
    /\ p.k = "object" /\ Has(p, "method") /\ p.method = EventsAll
    /\ Has(p, "params") /\ Has(p.params, "event") /\ p.params.event = evt

\* C4: a waiter is resolved only by a notification on the
\* client.Controller.events.all channel whose event type equals the waiter's
\* eventType, whatever the match map is.
C4_OnlyOwnEventType ==
    \A i \in WaitFutures : JustResolved(i) => OfEventType(futures[i].evt, futures[i].by)

\* C5: a waiter is resolved by a payload only when every key of its match map
\* is present in the notification's parameter map with an equal value; extra
\* keys of the notification do not matter.
C5_EveryKeyMatches ==
    \A i \in WaitFutures : JustResolved(i) => SupersetMatch(futures[i].mp, futures[i].by)

\* a waiter with a match map was resolved by a notification with more keys
C5_Witness ==
    \E i \in WaitFutures :
        /\ JustResolved(i)
        /\ futures[i].mp # EmptyObj
        /\ DOMAIN futures[i].by.params.params # DOMAIN futures[i].mp

\* C6: a message that does not match a waiter (a response, a notification of
\* another type or with other parameters, unparsable text) neither settles
\* the waiter nor disables it: the waiter is settled only by a notification
\* of its type that matches its map, and stays registered until then.
C6_NonMatchingIgnored ==
    \A i \in WaitFutures :
        /\ JustResolved(i) =>
              OfEventType(futures[i].evt, futures[i].by) /\ SupersetMatch(futures[i].mp, futures[i].by)
        /\ futures[i].st # "rejected"
        /\ futures[i].st = "pending" => i \in Range(handlers)

\* C7: once a waiter has matched, its handler is no longer among the bus's
\* message listeners.
C7_MatchedWaiterDeregistered ==
    \A i \in WaitFutures : futures[i].st = "resolved" => i \notin Range(handlers)

----------------------------------------------------------------------------
(* Lifecycle operations *)

\* the transition request of operation i was built: its method with the
\* configured callsign
TransitionFrames(i) ==
    {n \in DOMAIN frames :
        /\ frames[n].op = i
        /\ \/ ops[i].kind = "start" /\ frames[n].method = "Controller.1.activate"
           \/ ops[i].kind = "stop" /\ frames[n].method = "Controller.1.deactivate"
           \/ ops[i].kind = "resume" /\ frames[n].method = "Controller.1.resume"}

\* the states in which an operation has nothing to do
InTarget(kind, state) ==
    \/ kind = "start" /\ state \in {"Activated", "Resumed"}
    \/ kind = "stop" /\ state = "Deactivated"
    \/ kind = "resume" /\ state \in {"Activated", "Resumed"}

\* C8: an operation called in a state that is not its target builds its
\* transition request with the configured callsign, and is resolved only
\* after its confirmation notification (statechange with state activated,
\* state deactivated, suspended false) was delivered; the acknowledgement
\* alone does not resolve it.
C8_ResolvedOnlyByConfirmation ==
    \A i \in DOMAIN ops :
        /\ (ops[i].state # "" /\ ~InTarget(ops[i].kind, ops[i].state)) =>
              \E n \in TransitionFrames(i) : frames[n].callsign = Callsign
        /\ (ops[i].out = "resolved" /\ ~InTarget(ops[i].kind, ops[i].state)) => ops[i].seen

\* C9: the confirmation waiter is registered before the transition request is
\* built and sent, so a confirmation delivered once the request is out, before
\* or without the acknowledgement, resolves the operation.
C9_WaiterBeforeRequest ==
    \A i \in DOMAIN ops :
        /\ TransitionFrames(i) # {} =>
              /\ ops[i].waitFut # 0
              /\ ops[i].waitFut < ops[i].ackFut
              /\ futures[ops[i].waitFut].kind = "wait"
        /\ ops[i].seen => ops[i].out = "resolved"

\* the confirmation arrived while the acknowledgement of the sent request was
\* still outstanding, and resolved the operation
C9_Witness ==
    \E i \in DOMAIN ops :
        /\ ops[i].sent /\ ops[i].seen /\ ops[i].out = "resolved"
        /\ futures[ops[i].ackFut].st = "pending"

\* C10: an operation called in its target state (start: Activated or Resumed,
\* stop: Deactivated, resume: Activated or Resumed) resolves after the status
\* query alone: it builds no transition request and registers no waiter.
C10_NoopInTarget ==
    \A i \in DOMAIN ops :
        (ops[i].state # "" /\ InTarget(ops[i].kind, ops[i].state)) =>
            /\ ops[i].out = "resolved"
            /\ ops[i].waitFut = 0 /\ ops[i].ackFut = 0
            /\ Cardinality(WaitFutures) = Cardinality({j \in DOMAIN ops : ops[j].waitFut # 0})
            /\ Cardinality({n \in DOMAIN frames : frames[n].op = i}) = 1
            /\ \A n \in DOMAIN frames : frames[n].op = i => frames[n].method = "Controller.1.status"

\* start() found the instance Resumed and resolved at once
C10_Witness ==
    \E i \in DOMAIN ops :
        ops[i].kind = "start" /\ ops[i].state = "Resumed" /\ ops[i].out = "resolved"

----------------------------------------------------------------------------
(* State query *)

\* C11: an operation whose state query failed (the status request could not be
\* sent because the transport is not open, or the status response has no
\* entry for the configured callsign) is settled as rejected; it does not stay
\* pending.
C11_FailedQueryRejects ==
    \A i \in DOMAIN ops : ops[i].pc = "dead" => ops[i].out = "rejected"

\* the status requests built for operation i
StatusFrames(i) ==
    {n \in DOMAIN frames : frames[n].op = i /\ frames[n].method = "Controller.1.status"}

\* C12: getState() builds one Controller.1.status request and, when the
\* response carries an array, yields the state of the entry whose callsign is
\* the configured one; without such an entry it fails and yields no state.
C12_StateOfOwnEntry ==
    \A i \in DOMAIN ops :
        /\ Cardinality(StatusFrames(i)) = 1
        /\ (JustResolved(ops[i].statusFut) /\ Has(futures[ops[i].statusFut].val, "arr")
               /\ futures[ops[i].statusFut].val.t = "array") =>
              LET arr == futures[ops[i].statusFut].val.arr
                  own == {n \in DOMAIN arr : arr[n].callsign = Callsign}
              IN  IF own = {}
                  THEN ops[i].pc = "dead" /\ ops[i].state = "" /\ ops[i].out # "resolved"
                  ELSE \E n \in own : ops[i].state = arr[n].state

\* the state was taken from the second entry of the response, the first being
\* another callsign's
C12_Witness ==
    \E i \in DOMAIN ops :
        /\ JustResolved(ops[i].statusFut)
        /\ Has(futures[ops[i].statusFut].val, "arr")
        /\ Len(futures[ops[i].statusFut].val.arr) = 2
        /\ futures[ops[i].statusFut].val.arr[1].callsign # Callsign
        /\ ops[i].state = "Deactivated"

----------------------------------------------------------------------------
(* Transport *)

Rejections == {"failed", "timedout"}

\* C13: the promise of connect() settles once, by what happens first: it is
\* resolved exactly when its socket reached open, rejected as failed only by
\* an error before open, rejected as timed out only by its timer firing before
\* open; once the timer has fired before open it is not pending; an error
\* after open, or any later event, does not change a settled promise.
C13_SettlesOnce ==
    /\ [](\A s \in DOMAIN sockets :
            /\ sockets[s].fut = "resolved" <=> sockets[s].connected
            /\ sockets[s].fut = "failed" => ~sockets[s].connected /\ sockets[s].rs = "CLOSED"
            /\ sockets[s].fut = "timedout" => ~sockets[s].connected /\ sockets[s].timer = "fired"
            /\ (sockets[s].timer = "fired" /\ ~sockets[s].connected) => sockets[s].fut \in Rejections)
    /\ [][\A s \in DOMAIN sockets :
            sockets[s].fut # "pending" => sockets'[s].fut = sockets[s].fut]_vars

\* a connect failed on an error, and its timer fired afterwards without
\* changing the rejection
C13_Witness ==
    \E s \in DOMAIN sockets : sockets[s].fut = "failed" /\ sockets[s].timer = "fired"

\* C14: at the step in which a connect() promise is rejected, on the timeout
\* path and on the error path alike, its socket is closed, the transport holds
\* no reference to it, and isConnected() is false.
C14_ClosedAndReleasedOnReject ==
    [][\A s \in DOMAIN sockets :
          (sockets[s].fut = "pending" /\ sockets'[s].fut \in Rejections) =>
              /\ sockets'[s].rs \in {"CLOSING", "CLOSED"}
              /\ socket' # s
              /\ ~WsIsConnected(sockets', socket')]_vars

\* C15: at most one socket of the transport is connecting or open.
C15_OneLiveSocket ==
    Cardinality({s \in DOMAIN sockets : sockets[s].rs \in {"CONNECTING", "OPEN"}}) <= 1

\* connect() was called while the first socket was open, and the second
\* socket opened
C15_Witness ==
    /\ Len(sockets) = 2
    /\ sockets[1].connected /\ sockets[1].closes = 1
    /\ sockets[2].rs = "OPEN"

\* C16: no timer closes an open socket, and the timer of an earlier connect()
\* leaves the socket of the later connection alone while that socket is
\* connecting or open.
C16_NoTimerClosesLiveSocket ==
    [][\A t \in DOMAIN sockets :
          (sockets[t].timer = "armed" /\ sockets'[t].timer = "fired") =>
              \A s \in DOMAIN sockets :
                  (sockets[s].rs = "OPEN" \/ (s # t /\ sockets[s].rs = "CONNECTING")) =>
                      (sockets'[s].rs = sockets[s].rs /\ (socket = s => socket' = s))]_vars

\* C17: send() hands a frame to the socket exactly when the transport holds a
\* socket and that socket is open; in every other state it fails and the frame
\* goes nowhere.
C17_SendOnlyWhenOpen ==
    [][\A n \in DOMAIN frames' :
          n > Len(frames) =>
              (frames'[n].ok <=> (socket' # 0 /\ sockets'[socket'].rs = "OPEN"))]_vars

\* a send failed with no socket, the register frame went out on the open
\* socket, and a send failed on the socket once the peer had closed it
C17_Witness ==
    /\ Len(frames) = 3
    /\ ~frames[1].ok /\ frames[2].ok /\ ~frames[3].ok
    /\ socket = 1 /\ sockets[1].rs = "CLOSED" /\ sockets[1].closes = 0

\* C18: close() is idempotent: close() applied to the state it leaves changes
\* nothing; with no socket held it changes nothing; and no socket has its
\* close() called more than once.
C18_CloseIdempotent ==
    /\ LET c == WsClose(sockets, socket)
       IN  /\ c.socket = 0
           /\ WsClose(c.sockets, c.socket) = c
    /\ socket = 0 => WsClose(sockets, socket) = [sockets |-> sockets, socket |-> socket]
    /\ \A s \in DOMAIN sockets : sockets[s].closes <= 1

\* close() released an open socket, a later connect() found nothing to close,
\* and that connection was closed in turn
C18_Witness ==
    /\ Len(sockets) = 2
    /\ socket = 0
    /\ sockets[1].connected /\ sockets[1].closes = 1
    /\ sockets[2].closes = 1

\* C19: a socket that close() was called on no longer has the transport's
\* listeners, so none of its later events reaches the bus or a connect promise.
C19_ClosedSocketDetached ==
    \A s \in DOMAIN sockets : sockets[s].closes > 0 => ~sockets[s].attached

----------------------------------------------------------------------------
(* Parse failures *)

\* a request whose promise is pending, with its listener on the bus
PendingRpc(i) == i \in RpcFutures /\ futures[i].st = "pending" /\ i \in Range(handlers)

\* the step is the delivery of payload p
Delivered(p) == \E s \in DOMAIN sockets : Deliver(s, p)

\* C20 as stated: the delivery of any text JSON.parse cannot parse, the empty
\* text included, rejects every pending sendRpc promise.
C20_UnparsableRejects ==
    [][\A p \in {Garbage, Empty} :
          Delivered(p) => \A i \in DOMAIN futures : PendingRpc(i) => futures'[i].st = "rejected"]_vars

\* C20 amended: the delivery of a non-empty text that JSON.parse cannot parse
\* rejects every pending sendRpc promise; an empty payload settles none.
C20_NonEmptyUnparsableRejects ==
    [][/\ Delivered(Garbage) =>
             \A i \in DOMAIN futures : PendingRpc(i) => futures'[i].st = "rejected"
       /\ Delivered(Empty) =>
             \A i \in DOMAIN futures : futures'[i].st = futures[i].st]_vars

\* the promise of a request was rejected by an unparsable message
C20_Witness ==
    \E i \in RpcFutures : futures[i].st = "rejected" /\ futures[i].by = Garbage

----------------------------------------------------------------------------
(* Noise, abandonment, overlap *)

\* C21: the delivery of a message that is unparsable, or parsable without the
\* id of a pending request, leaves that request's promise pending.
C21_NoiseLeavesPending ==
    [][\A p \in RpcPayloads :
          Delivered(p) =>
              \A i \in DOMAIN futures :
                  (PendingRpc(i) /\ ~(Has(p, "id") /\ p.id = futures[i].id)) =>
                      futures'[i].st = "pending"]_vars

C30_NoMutualExclusion ==
    \A i \in DOMAIN ops :
        (ops[i].state # "" /\ ~InTarget(ops[i].kind, ops[i].state)) => TransitionFrames(i) # {}

\* an activate and a deactivate request of two overlapping operations are
\* both sent and unacknowledged
C30_Witness ==
    \E i, j \in DOMAIN ops :
        /\ ops[i].kind = "start" /\ ops[j].kind = "stop"
        /\ ops[i].sent /\ ops[j].sent
        /\ ops[i].pc = "confirm" /\ ops[j].pc = "confirm"
        /\ futures[ops[i].ackFut].st = "pending" /\ futures[ops[j].ackFut].st = "pending"

----------------------------------------------------------------------------
(* Debug Feed Client: createWebInspectorClient *)

MaxFeeds == 2        \* connect() calls of the Debug Feed Client
MaxFeedMsgs == 2     \* inbound messages of the Debug Feed

\* a transport as connect() creates it and calls its connect(): one socket,
\* referenced by the transport's socket variable
NewTransport == [sockets |-> <<NewSocket>>, socket |-> 1]

\* ws.close() on transport t
TransportClose(trs, t) ==
    LET c == WsClose(trs[t].sockets, trs[t].socket)
    IN  [trs EXCEPT ![t] = [sockets |-> c.sockets, socket |-> c.socket]]

\* a disconnect() that drops the transport without closing it
feedDisconnectLeak(trs, w) == [transports |-> trs, ws |-> 0]

\* disconnect(): [transports, ws] after it
feedDisconnect(trs, w) ==
    IF w # 0
    THEN [transports |-> TransportClose(trs, w), ws |-> 0]
    ELSE [transports |-> trs, ws |-> w]

\* connect(): [transports, ws] after it
feedConnect(trs, w) ==
    LET d == feedDisconnect(trs, w)
    IN  [transports |-> Append(d.transports, NewTransport), ws |-> Len(trs) + 1]

FeedFrame(t, id, method, ok) == [t |-> t, id |-> id, method |-> method, ok |-> ok]

\* an open listener that announces initialisation before the console is enabled
feedOnOpenSwapped(trs, w) ==
    IF w = 0 THEN <<>>
    ELSE <<FeedFrame(w, 1, "Inspector.enable", TRUE),
           FeedFrame(w, 23, "Inspector.initialized", TRUE),
           FeedFrame(w, 22, "Console.enable", TRUE)>>

\* the 'open' listener: the frames it passes to ws.send(); a send() that
\* throws ends the listener
feedOnOpen(trs, w) ==
    IF w = 0 THEN <<>>
    ELSE IF WsCanSend(trs[w].sockets, trs[w].socket)
    THEN <<FeedFrame(w, 1, "Inspector.enable", TRUE),
           FeedFrame(w, 22, "Console.enable", TRUE),
           FeedFrame(w, 23, "Inspector.initialized", TRUE)>>
    ELSE <<FeedFrame(w, 1, "Inspector.enable", FALSE)>>

ConsoleTexts == {"log line", ""}

ConsoleMessage(method, text) ==
    [k |-> "object", method |-> method, params |-> [message |-> [text |-> text]]]

\* the inbound payloads of the Debug Feed
FeedPayloads ==
    {Empty, Garbage, NullText, Scalar}
    \cup {ConsoleMessage(method, text) :
             method \in {"Console.messageAdded", "Console.messagesCleared"}, text \in ConsoleTexts}
    \cup {[k |-> "object", method |-> "Console.messageAdded"],
          [k |-> "object", method |-> "Console.messageAdded", params |-> EmptyObj],
          [k |-> "object", method |-> "Console.messageAdded", params |-> [message |-> EmptyObj]],
          [k |-> "object", id |-> 22, result |-> JObject]}

\* handleMessage(event): the onMessage calls it makes
handleMessage(p) ==
    IF p.k # "object" THEN <<>>
    ELSE IF /\ Has(p, "method") /\ p.method = "Console.messageAdded"
            /\ Has(p, "params") /\ Has(p.params, "message") /\ Has(p.params.message, "text")
            /\ p.params.message.text # ""
    THEN <<[err |-> "null", text |-> p.params.message.text]>>
    ELSE <<>>

\* connect() of the Debug Feed Client
FeedConnect ==
    /\ Len(transports) < MaxFeeds
    /\ LET c == feedConnect(transports, ws)
       IN  transports' = c.transports /\ ws' = c.ws
    /\ UNCHANGED <<orchVars, sessionVars, feedSent, feedCalls, feedInbox>>

\* disconnect() of the Debug Feed Client
FeedDisconnect ==
    /\ LET d == feedDisconnect(transports, ws)
       IN  transports' = d.transports /\ ws' = d.ws
    /\ UNCHANGED <<orchVars, sessionVars, feedSent, feedCalls, feedInbox>>

\* the open event of transport t's socket: onOpen, then the 'open' listener
FeedSocketOpen(t) ==
    /\ transports[t].sockets[1].rs = "CONNECTING" /\ transports[t].sockets[1].attached
    /\ LET opened == [transports EXCEPT ![t].sockets[1].rs = "OPEN",
                                        ![t].sockets[1].connected = TRUE,
                                        ![t].sockets[1].timer = "cleared",
                                        ![t].sockets[1].fut = Settle(@, "resolved")]
       IN  /\ transports' = opened
           /\ feedSent' = feedSent \o feedOnOpen(opened, ws)
    /\ UNCHANGED <<orchVars, sessionVars, ws, feedCalls, feedInbox>>

\* the error event of transport t's socket: onError, then the 'error' listener
FeedSocketError(t) ==
    /\ transports[t].sockets[1].rs # "CLOSED" /\ transports[t].sockets[1].attached
    /\ transports' = [transports EXCEPT
           ![t].sockets[1].rs = "CLOSED",
           ![t].sockets[1].fut = IF transports[t].sockets[1].connected THEN @ ELSE Settle(@, "failed")]
    /\ UNCHANGED <<orchVars, sessionVars, ws, feedSent, feedCalls, feedInbox>>

\* the close event of transport t's socket: onClose, then the 'close' listener
FeedSocketClosed(t) ==
    /\ transports[t].sockets[1].rs \in {"OPEN", "CLOSING"}
    /\ transports' = [transports EXCEPT ![t].sockets[1].rs = "CLOSED"]
    /\ UNCHANGED <<orchVars, sessionVars, ws, feedSent, feedCalls, feedInbox>>

\* the timeout callback of transport t's connect()
FeedTimerFire(t) ==
    /\ transports[t].sockets[1].timer = "armed"
    /\ LET fired == [transports EXCEPT ![t].sockets[1].timer = "fired"]
       IN  transports' =
             IF ~transports[t].sockets[1].connected
             THEN [TransportClose(fired, t) EXCEPT ![t].sockets[1].fut = Settle(@, "timedout")]
             ELSE fired
    /\ UNCHANGED <<orchVars, sessionVars, ws, feedSent, feedCalls, feedInbox>>

\* the message event of transport t's socket: onMessage, then handleMessage
FeedDeliver(t, p) ==
    /\ transports[t].sockets[1].connected
    /\ transports[t].sockets[1].rs \in {"OPEN", "CLOSING"}
    /\ transports[t].sockets[1].attached
    /\ Len(feedInbox) < MaxFeedMsgs
    /\ feedInbox' = Append(feedInbox, p)
    /\ feedCalls' = feedCalls \o handleMessage(p)
    /\ UNCHANGED <<orchVars, sessionVars, ws, transports, feedSent>>

NextFeed ==
    \/ FeedConnect
    \/ FeedDisconnect
    \/ \E t \in DOMAIN transports : FeedSocketOpen(t)
    \/ \E t \in DOMAIN transports : FeedSocketError(t)
    \/ \E t \in DOMAIN transports : FeedSocketClosed(t)
    \/ \E t \in DOMAIN transports : FeedTimerFire(t)
    \/ \E t \in DOMAIN transports, p \in FeedPayloads : FeedDeliver(t, p)

\* the Debug Feed Client under every order of calls, socket events and messages
SpecFeed == Init /\ [][NextFeed]_vars

-----------------------------------------------------------------------------
\* Orchestrator (createThunderWebkitAPI)

MaxCalls == 3        \* orchestrator calls, launch() among them

MaxLifeCalls == 4    \* start() / close() / quit() calls

OrchKinds == {"start", "launch", "close", "quit"}

Step(on, op) == [on |-> on, op |-> op]

\* the awaited collaborator calls of launch(), in program order
LaunchStepsSwapped ==
    <<Step("inspector", "disconnect"), Step("session", "start"), Step("session", "stop"),
      Step("inspector", "connect"), Step("session", "resume"), Step("session", "setURL")>>

LaunchSteps ==
    <<Step("inspector", "disconnect"), Step("session", "stop"), Step("session", "start"),
      Step("inspector", "connect"), Step("session", "resume"), Step("session", "setURL")>>

\* the awaited collaborator calls of close()
CloseSteps == <<Step("inspector", "disconnect"), Step("session", "stop")>>

\* the awaited collaborator call of start()
StartSteps == <<Step("session", "connect")>>

\* the awaited collaborator call of quit()
QuitSteps == <<Step("session", "disconnect")>>

StepsOf(kind) ==
    CASE kind = "launch" -> LaunchSteps
      [] kind = "close" -> CloseSteps
      [] kind = "start" -> StartSteps
      [] kind = "quit" -> QuitSteps

OrchEvent(type, message) == [type |-> type, message |-> message, url |-> ""]

\* `URL launched: ${url}`
UrlLaunched(url) == [type |-> "url-launch", message |-> "URL launched", url |-> url]

\* the event of the catch block of each operation
FailureOf(kind) ==
    OrchEvent("error",
        CASE kind = "launch" -> "Failed to launch URL"
          [] kind = "close" -> "Failed to close instance"
          [] kind = "start" -> "Failed to start Thunder session"
          [] kind = "quit" -> "Failed to stop instance")

\* the event after the last awaited call of each operation
SuccessOf(kind, url) ==
    CASE kind = "launch" -> UrlLaunched(url)
      [] kind = "close" -> OrchEvent("closed", "Browser instance closed")
      [] kind = "start" -> OrchEvent("connected", "Session connected")
      [] kind = "quit" -> OrchEvent("quit", "Session fully stopped")

\* a start() that never finds a session
alreadyStartedNever(ts) == FALSE

\* if (thunderSession) of start()
alreadyStarted(ts) == ts # 0

\* a launch() / close() that never misses a session
notStartedNever(ts) == FALSE

\* if (!thunderSession) of launch() and close()
notStarted(ts) == ts = 0

\* the events of quit() from the settlement of session.disconnect() on
quitTail(failed) ==
    (IF failed THEN <<FailureOf("quit")>> ELSE <<>>) \o <<SuccessOf("quit", "")>>

LogEntry(st, obj, url, what) ==
    [on |-> st.on, op |-> st.op, obj |-> obj,
     url |-> IF st.op = "setURL" THEN url ELSE "", what |-> what]

NewCall(kind, url) ==
    [kind |-> kind, url |-> url, at |-> 0, obj |-> 0, done |-> FALSE, ev |-> <<>>, log |-> <<>>]

\* the call emits its last event and returns
Finished(rec, events) == [rec EXCEPT !.at = 0, !.done = TRUE, !.ev = @ \o events]

\* evaluates step k of a call: a null reference throws into the catch block,
\* otherwise the method is invoked and the call suspends on its promise
invoke(rec, k, ts, wi) ==
    LET st == StepsOf(rec.kind)[k]
        obj == IF st.on = "session" THEN ts ELSE wi
    IN  IF obj = 0
        THEN Finished(rec, <<FailureOf(rec.kind)>>)
        ELSE [rec EXCEPT !.at = k, !.obj = obj,
                         !.log = Append(@, LogEntry(st, obj, rec.url, "call"))]

\* start() up to its await
OrchStart ==
    IF alreadyStarted(thunderSession)
    THEN /\ orchCalls' = Append(orchCalls,
                Finished(NewCall("start", ""), <<OrchEvent("error", "Session already started")>>))
         /\ UNCHANGED <<thunderSession, webInspector, sessionsCreated>>
    ELSE LET n == sessionsCreated + 1
         IN  /\ sessionsCreated' = n
             /\ thunderSession' = n
             /\ webInspector' = n
             /\ orchCalls' = Append(orchCalls, invoke(NewCall("start", ""), 1, n, n))

\* launch(url) and close() up to their first await
OrchSequence(kind, url) ==
    /\ orchCalls' = Append(orchCalls,
            IF notStarted(thunderSession)
            THEN Finished(NewCall(kind, url), <<OrchEvent("error", "Session not started")>>)
            ELSE invoke(NewCall(kind, url), 1, thunderSession, webInspector))
    /\ UNCHANGED <<thunderSession, webInspector, sessionsCreated>>

\* quit() up to its await, or to its end when there is no session
OrchQuit ==
    LET rec == IF webInspector # 0
               THEN [NewCall("quit", "") EXCEPT
                        !.log = <<LogEntry(Step("inspector", "disconnect"), webInspector, "", "call")>>]
               ELSE NewCall("quit", "")
    IN  /\ webInspector' = 0
        /\ orchCalls' = Append(orchCalls,
                IF thunderSession # 0
                THEN invoke(rec, 1, thunderSession, 0)
                ELSE Finished(rec, <<SuccessOf("quit", "")>>))
        /\ UNCHANGED <<thunderSession, sessionsCreated>>

\* a call of start(), launch(url), close() or quit(), run to its first await
OrchCall(kind, url, limit) ==
    /\ Len(orchCalls) < limit
    /\ (kind = "launch") = (url # "")
    /\ CASE kind = "start" -> OrchStart
         [] kind = "quit" -> OrchQuit
         [] OTHER -> OrchSequence(kind, url)
    /\ UNCHANGED <<sessionVars, feedVars>>

\* the promise call c awaits settles and the call runs to its next await or
\* to its end
OrchResume(c, ok) ==
    /\ c \in DOMAIN orchCalls
    /\ orchCalls[c].at > 0
    /\ LET st == StepsOf(orchCalls[c].kind)[orchCalls[c].at]
           rec == [orchCalls[c] EXCEPT
                      !.log = Append(@, LogEntry(st, orchCalls[c].obj, orchCalls[c].url,
                                                 IF ok THEN "ok" ELSE "fail"))]
       IN  /\ ~ok => st.on = "session"
           /\ IF rec.kind = "quit"
              THEN /\ thunderSession' = 0
                   /\ orchCalls' = [orchCalls EXCEPT ![c] = Finished(rec, quitTail(~ok))]
              ELSE /\ UNCHANGED thunderSession
                   /\ orchCalls' = [orchCalls EXCEPT ![c] =
                         IF ~ok THEN Finished(rec, <<FailureOf(rec.kind)>>)
                         ELSE IF rec.at = Len(StepsOf(rec.kind))
                         THEN Finished(rec, <<SuccessOf(rec.kind, rec.url)>>)
                         ELSE invoke(rec, rec.at + 1, thunderSession, webInspector)]
    /\ UNCHANGED <<webInspector, sessionsCreated, sessionVars, feedVars>>

NextOrch ==
    \/ \E kind \in OrchKinds, url \in Urls \cup {""} : OrchCall(kind, url, MaxCalls)
    \/ \E c \in 1..MaxCalls, ok \in BOOLEAN : OrchResume(c, ok)

\* the orchestrator over collaborators whose promises settle either way
SpecOrch == Init /\ [][NextOrch]_vars

NextLife ==
    \/ \E kind \in OrchKinds \ {"launch"} : OrchCall(kind, "", MaxLifeCalls)
    \/ \E c \in 1..MaxLifeCalls, ok \in BOOLEAN : OrchResume(c, ok)

\* the session's life in the orchestrator: start(), close() and quit() calls
\* overlapping in every order
SpecLife == Init /\ [][NextLife]_vars

-----------------------------------------------------------------------------
\* Debug Feed claims

\* the frames the Debug Feed Client passed to send() on transport t
SentOn(t) == SelectSeq(feedSent, LAMBDA f : f.t = t)

EnableFrames(t) ==
    <<FeedFrame(t, 1, "Inspector.enable", TRUE),
      FeedFrame(t, 22, "Console.enable", TRUE),
      FeedFrame(t, 23, "Inspector.initialized", TRUE)>>

\* C23: a transport of the Debug Feed whose socket reached open was sent
\* exactly Inspector.enable (1), Console.enable (22), Inspector.initialized
\* (23), in this order and all handed to the socket; a transport whose socket
\* has not opened, one disconnected before open included, was sent nothing.
C23_EnableSequence ==
    \A t \in DOMAIN transports :
        SentOn(t) = IF transports[t].sockets[1].connected THEN EnableFrames(t) ELSE <<>>

\* a first connection was disconnected before it opened and a second one
\* opened
C23_Witness ==
    /\ Len(transports) = 2
    /\ ~transports[1].sockets[1].connected /\ transports[1].sockets[1].closes = 1
    /\ transports[2].sockets[1].connected
    /\ Len(feedSent) = 3

\* a Console.messageAdded notification that carries a text member
CarriesText(p) ==
    /\ p.k = "object" /\ Has(p, "method") /\ p.method = "Console.messageAdded"
    /\ Has(p, "params") /\ Has(p.params, "message") /\ Has(p.params.message, "text")

RECURSIVE ForwardsOf(_, _)
\* one (null, text) call for each payload of the inbox that is in wanted
ForwardsOf(inbox, wanted) ==
    IF inbox = <<>> THEN <<>>
    ELSE (IF Head(inbox) \in wanted THEN <<[err |-> "null", text |-> Head(inbox).params.message.text]>>
          ELSE <<>>) \o ForwardsOf(Tail(inbox), wanted)

\* C24 as stated: the callback was invoked once with (null, text) for each
\* Console.messageAdded notification carrying a text, whatever the text, and
\* for no other payload.
C24_EveryTextForwarded == feedCalls = ForwardsOf(feedInbox, {p \in FeedPayloads : CarriesText(p)})

\* C25: the Debug Feed Client holds at most one transport: every transport
\* other than the one it references has released its socket, which is closing
\* or closed; disconnect() leaves no transport referenced, and disconnect()
\* with none referenced changes nothing.
C25_OneTransport ==
    /\ ws \in 0..Len(transports)
    /\ \A t \in DOMAIN transports :
          t # ws => /\ transports[t].socket = 0
                    /\ transports[t].sockets[1].rs \in {"CLOSING", "CLOSED"}
    /\ LET d == feedDisconnect(transports, ws)
       IN  /\ d.ws = 0
           /\ feedDisconnect(d.transports, d.ws) = d
    /\ ws = 0 => feedDisconnect(transports, ws) = [transports |-> transports, ws |-> ws]

\* connect() was called while the first connection was open, and the second
\* connection opened
C25_Witness ==
    /\ Len(transports) = 2 /\ ws = 2
    /\ transports[1].sockets[1].connected /\ transports[1].sockets[1].closes = 1
    /\ transports[2].sockets[1].rs = "OPEN"

-----------------------------------------------------------------------------
\* Orchestrator claims

LastCall == orchCalls'[Len(orchCalls')]

\* the step completes call c
Returns(c) == ~orchCalls[c].done /\ orchCalls'[c].done

\* C26: start() called while a session object exists emits 'Session already
\* started', creates no session and invokes nothing; a session object, once
\* created, is replaced by nothing but null, and only by a quit() that
\* returns, also after its connect failed.
C26_StartOnce ==
    [][ /\ (thunderSession # 0 /\ OrchCall("start", "", MaxLifeCalls)) =>
             /\ LastCall.done /\ LastCall.log = <<>>
             /\ LastCall.ev = <<OrchEvent("error", "Session already started")>>
             /\ UNCHANGED <<thunderSession, webInspector, sessionsCreated>>
        /\ (thunderSession # 0 /\ thunderSession' # thunderSession) =>
             /\ thunderSession' = 0
             /\ \E c \in DOMAIN orchCalls : orchCalls[c].kind = "quit" /\ Returns(c)
      ]_vars

\* a start() whose connect failed, a second start() refused, then quit() and
\* a start() that connects a second session
C26_Witness ==
    /\ Len(orchCalls) = 4
    /\ orchCalls[1].kind = "start" /\ orchCalls[1].ev = <<FailureOf("start")>>
    /\ orchCalls[2].kind = "start"
    /\ orchCalls[2].ev = <<OrchEvent("error", "Session already started")>>
    /\ orchCalls[3].kind = "quit" /\ orchCalls[3].done
    /\ orchCalls[4].kind = "start" /\ orchCalls[4].obj = 2
    /\ sessionsCreated = 2

\* C27: launch(url) and close() called while no session exists emit exactly
\* one error event 'Session not started', invoke no session or inspector
\* method and return; a call that returned emits and invokes nothing more.
C27_NotStarted ==
    [][ /\ \A kind \in {"launch", "close"}, url \in Urls \cup {""} :
              (thunderSession = 0 /\ OrchCall(kind, url, MaxCalls)) =>
                 /\ LastCall.done /\ LastCall.log = <<>>
                 /\ LastCall.ev = <<OrchEvent("error", "Session not started")>>
                 /\ UNCHANGED <<thunderSession, webInspector, sessionsCreated>>
        /\ \A c \in DOMAIN orchCalls : orchCalls[c].done => orchCalls'[c] = orchCalls[c]
      ]_vars

\* launch() refused after start() and quit()
C27_Witness ==
    /\ Len(orchCalls) = 3
    /\ orchCalls[1].kind = "start" /\ orchCalls[2].kind = "quit" /\ orchCalls[2].done
    /\ orchCalls[3].kind = "launch"
    /\ orchCalls[3].ev = <<OrchEvent("error", "Session not started")>>
    /\ orchCalls[3].log = <<>>

\* the six steps of a navigation, in the order stated
LaunchOrder ==
    <<Step("inspector", "disconnect"), Step("session", "stop"), Step("session", "start"),
      Step("inspector", "connect"), Step("session", "resume"), Step("session", "setURL")>>

\* entry i of a launch's log is the call of step (i + 1) \div 2 or its
\* settlement, and only the last entry may be a failure
InLaunchOrder(r) ==
    /\ Len(r.log) <= 2 * Len(LaunchOrder)
    /\ \A i \in DOMAIN r.log :
          /\ Step(r.log[i].on, r.log[i].op) = LaunchOrder[(i + 1) \div 2]
          /\ r.log[i].op = "setURL" => r.log[i].url = r.url
          /\ r.log[i].what = IF i % 2 = 1 THEN "call"
                              ELSE IF i = Len(r.log) /\ r.log[i].what = "fail" THEN "fail"
                              ELSE "ok"

Completed(r) == Len(r.log) = 2 * Len(LaunchOrder) /\ r.log[Len(r.log)].what = "ok"

\* C28: a launch(url) that found a session invokes inspector disconnect,
\* session stop, session start, inspector connect, session resume and
\* session setURL(url) in this order, each after the previous one resolved;
\* it emits nothing while a step is pending, 'url-launch' for its url exactly
\* when all six resolved, and otherwise, a step having failed, exactly one
\* 'Failed to launch URL' with no further step invoked.
C28_LaunchSequence ==
    \A c \in DOMAIN orchCalls :
        LET r == orchCalls[c]
        IN  (r.kind = "launch" /\ r.ev # <<OrchEvent("error", "Session not started")>>) =>
               /\ InLaunchOrder(r)
               /\ ~r.done => r.ev = <<>> /\ Len(r.log) % 2 = 1
               /\ r.done => /\ Len(r.log) % 2 = 0
                            /\ r.ev = IF Completed(r) THEN <<UrlLaunched(r.url)>>
                                       ELSE <<OrchEvent("error", "Failed to launch URL")>>

\* one launch failed at its session start and a later one completed
C28_Witness ==
    /\ Len(orchCalls) = 3
    /\ orchCalls[2].kind = "launch" /\ Len(orchCalls[2].log) = 6
    /\ orchCalls[2].ev = <<OrchEvent("error", "Failed to launch URL")>>
    /\ orchCalls[3].kind = "launch" /\ Completed(orchCalls[3])
    /\ orchCalls[3].ev = <<UrlLaunched(orchCalls[3].url)>>

\* the collaborator calls of quit() in a state with inspector wi and session ts
QuitCalls(wi, ts) ==
    (IF wi # 0 THEN <<LogEntry(Step("inspector", "disconnect"), wi, "", "call")>> ELSE <<>>)
    \o (IF ts # 0 THEN <<LogEntry(Step("session", "disconnect"), ts, "", "call")>> ELSE <<>>)

QuitEvent == OrchEvent("quit", "Session fully stopped")

\* a quit() call runs to its await: the inspector reference is null, and it
\* invoked the disconnects of what was present and nothing else
QuitBegins ==
    OrchCall("quit", "", MaxLifeCalls) =>
        /\ webInspector' = 0
        /\ LastCall.log = QuitCalls(webInspector, thunderSession)
        /\ LastCall.done = (thunderSession = 0)

\* a quit() call returns: both references are null and its events are the
\* error of a failed disconnect, if any, then 'quit'
QuitReturns ==
    \A c \in DOMAIN orchCalls' :
        (/\ orchCalls'[c].kind = "quit" /\ orchCalls'[c].done
         /\ c \in DOMAIN orchCalls => ~orchCalls[c].done) =>
            /\ thunderSession' = 0 /\ webInspector' = 0
            /\ orchCalls'[c].ev =
                  IF orchCalls'[c].log # <<>> /\ orchCalls'[c].log[Len(orchCalls'[c].log)].what = "fail"
                  THEN <<FailureOf("quit"), QuitEvent>>
                  ELSE <<QuitEvent>>

\* a start() with no session creates a session and connects it
StartsFresh ==
    (thunderSession = 0 /\ OrchCall("start", "", MaxLifeCalls)) =>
        /\ sessionsCreated' = sessionsCreated + 1
        /\ thunderSession' = sessionsCreated'
        /\ LastCall.log = <<LogEntry(Step("session", "connect"), thunderSession', "", "call")>>

\* every session created was told to disconnect before a quit() dropped it
DroppedDisconnected ==
    \A n \in 1..sessionsCreated :
        n # thunderSession =>
            \E c \in DOMAIN orchCalls :
                LogEntry(Step("session", "disconnect"), n, "", "call") \in Range(orchCalls[c].log)

\* C29: quit() disconnects the inspector and the session that are present,
\* leaves both references null when it returns, and emits 'quit' once, as
\* its last event, as it returns, also after a failed session disconnect and
\* with nothing started; no session is dropped without a disconnect; a
\* start() with no session creates a fresh session and connects it.
C29_QuitAlways ==
    /\ [](\A c \in DOMAIN orchCalls :
            (orchCalls[c].kind = "quit" /\ ~orchCalls[c].done) => orchCalls[c].ev = <<>>)
    /\ []DroppedDisconnected
    /\ [][QuitBegins /\ QuitReturns /\ StartsFresh]_vars

-----------------------------------------------------------------------------
(* Independence of waiters and requests *)

\* the notification is one the waiter waits for: of its event type, on the
\* events channel, with every key of its match map
MatchesWaiter(f, p) == OfEventType(f.evt, p) /\ SupersetMatch(f.mp, p)

\* C31: the delivery of a message settles the pending promises one by one:
\* a pending waiter is resolved exactly when the message is a notification
\* that matches it, whatever other waiters it resolves; a pending request is
\* resolved exactly when the message carries its id, so never by a
\* notification; none is rejected.
C31_IndependentEvaluation ==
    [][\A p \in MixPayloads :
          Delivered(p) =>
              \A i \in DOMAIN futures :
                  futures[i].st = "pending" =>
                      /\ futures'[i].st # "rejected"
                      /\ (futures'[i].st = "resolved") =
                            IF futures[i].kind = "wait" THEN MatchesWaiter(futures[i], p)
                            ELSE Has(p, "id") /\ p.id = futures[i].id]_vars

-----------------------------------------------------------------------------
(* Refused requests *)

\* C32: the delivery of a response that carries the id of a pending request
\* and an error member instead of a result resolves the request's promise
\* with the whole response; the operation whose transition request it
\* answers stays as after an accepting response: unsettled, its confirmation
\* waiter pending.
C32_ErrorResolves ==
    [][\A id \in ResponseIds :
          /\ Delivered(ErrorResponse(id)) =>
                \A i \in DOMAIN futures :
                    (PendingRpc(i) /\ futures[i].id = id) =>
                        futures'[i].st = "resolved" /\ futures'[i].val = ErrorResponse(id)
          /\ \A p \in {ErrorResponse(id), Response(id, JObject)} :
                Delivered(p) =>
                    \A j \in DOMAIN ops :
                        (/\ ops[j].pc = "confirm" /\ futures[ops[j].ackFut].id = id
                         /\ futures[ops[j].ackFut].st = "pending") =>
                            /\ ops'[j].pc = "confirm" /\ ops'[j].out = "pending"
                            /\ futures'[ops[j].waitFut].st = futures[ops[j].waitFut].st]_vars

\* the transition request of an operation was refused and the operation
\* waits on
C32_Witness ==
    \E j \in DOMAIN ops :
        /\ ops[j].pc = "confirm" /\ ops[j].sent /\ ops[j].out = "pending"
        /\ JustResolved(ops[j].ackFut)
        /\ Has(futures[ops[j].ackFut].by, "error")
        /\ futures[ops[j].ackFut].val = futures[ops[j].ackFut].by
        /\ futures[ops[j].waitFut].st = "pending"

-----------------------------------------------------------------------------
(* Reports of other plugins *)

\* C33: the delivery of a statechange notification resolves an operation
\* that waits for its confirmation exactly when the notification reports the
\* awaited state or suspended value, whichever plugin it names: a report for
\* another plugin resolves it like one for the configured plugin.
C33_CallsignIgnored ==
    [][\A p \in PluginNotifications :
          Delivered(p) =>
              \A j \in DOMAIN ops :
                  (ops[j].pc = "confirm" /\ futures[ops[j].waitFut].st = "pending") =>
                      (ops'[j].out = "resolved") = IsConfirmation(ops[j].kind, p)]_vars

\* an operation was resolved by the report of another plugin
C33_Witness ==
    \E j \in DOMAIN ops :
        /\ ops[j].out = "resolved" /\ ops[j].waitFut # 0
        /\ JustResolved(ops[j].waitFut)
        /\ futures[ops[j].waitFut].by.params.callsign = "Other"
        /\ futures[ops[j].waitFut].by.params.params.callsign = "Other"

-----------------------------------------------------------------------------
(* Handler registrations *)

\* the promises created by the step whose listener was registered: every
\* waiter, and every request whose frame was handed to the socket (a request
\* whose send() threw is created rejected, without a listener)
NewlyRegistered ==
    {i \in DOMAIN futures' \ DOMAIN futures :
        \/ futures'[i].kind = "wait"
        \/ \E n \in DOMAIN frames' \ DOMAIN frames :
              frames'[n].id = futures'[i].id /\ frames'[n].op # 0 /\ frames'[n].ok}

\* C34 as stated: the 'message' handlers of the session's transport are never
\* removed: in every step the registered handlers stay, in order, and one is
\* added for each sendRpc and each waitForEvent call; a message delivered by
\* whichever socket resolves the pending request whose id it carries.
C34_OnePerCall ==
    /\ [](DOMAIN futures \subseteq Range(handlers))
    /\ [][/\ Len(handlers') = Len(handlers) + Cardinality(DOMAIN futures' \ DOMAIN futures)
          /\ SubSeq(handlers', 1, Len(handlers)) = handlers
          /\ \A p \in RpcPayloads :
                Delivered(p) =>
                    \A i \in DOMAIN futures :
                        (PendingRpc(i) /\ Has(p, "id") /\ p.id = futures[i].id) =>
                            futures'[i].st = "resolved"]_vars

\* C34 amended: the 'message' handlers of the session's transport are never
\* removed: in every step (a request settling, a waiter matching and calling
\* off(), close(), disconnect(), a reconnect) the registered handlers stay,
\* in order, and one is added for each waitForEvent call and each sendRpc
\* call whose frame was sent, none for a sendRpc whose send() threw; a
\* message delivered by whichever socket resolves the pending request whose
\* id it carries.
C34_HandlersNeverRemoved ==
    /\ [](\A i \in DOMAIN futures :
            (futures[i].kind = "wait" \/ futures[i].st # "rejected") => i \in Range(handlers))
    /\ [][/\ Len(handlers') = Len(handlers) + Cardinality(NewlyRegistered)
          /\ SubSeq(handlers', 1, Len(handlers)) = handlers
          /\ \A p \in RpcPayloads :
                Delivered(p) =>
                    \A i \in DOMAIN futures :
                        (PendingRpc(i) /\ Has(p, "id") /\ p.id = futures[i].id) =>
                            futures'[i].st = "resolved"]_vars

\* a request sent on the first socket was answered on the second one, after
\* a reconnect, with the matched waiter of the operation still registered
C34_Witness ==
    /\ Len(sockets) = 2 /\ sockets[1].rs = "CLOSED" /\ sockets[2].rs = "OPEN"
    /\ \E i \in RpcFutures :
          /\ JustResolved(i)
          /\ \E n \in DOMAIN frames :
                /\ frames[n].method = "Controller.1.register" /\ frames[n].id > futures[i].id
                /\ \E k \in DOMAIN frames : k < n /\ frames[k].method = "Controller.1.register"
    /\ \E w \in WaitFutures : futures[w].st = "resolved" /\ w \in Range(handlers)

-----------------------------------------------------------------------------
(* setURL *)

\* the socket protocol state is as it was: no frame, no request id, no
\* promise or handler of the session, no change of a socket
ProtocolUntouched ==
    /\ messageId' = messageId /\ frames' = frames /\ handlers' = handlers
    /\ DOMAIN futures' = DOMAIN futures
    /\ \A i \in DOMAIN futures : futures'[i].st = futures[i].st
    /\ ops' = ops
    /\ UNCHANGED <<sockets, socket, timeoutId>>

\* C35: a setURL(url) call leaves the socket protocol state as it was,
\* whatever the transport state, and issues one HTTP POST for the configured
\* callsign with body {url}; the settlement of that request leaves the
\* protocol state as it was too; the promise is settled exactly once when the
\* exchange ends, resolved exactly when the response is ok and rejected when
\* the response is not ok or the request failed.
C35_HttpOnly ==
    /\ [](\A n \in DOMAIN posts :
            /\ posts[n].method = "POST" /\ posts[n].callsign = Callsign
            /\ (posts[n].out = "resolved") = (posts[n].http = "ok")
            /\ (posts[n].out = "rejected") = (posts[n].http \in {"notok", "failed"})
            /\ posts[n].settles = IF posts[n].http = "pending" THEN 0 ELSE 1)
    /\ [][/\ \A url \in Urls :
                SetURL(url, MaxPosts) =>
                    /\ ProtocolUntouched
                    /\ Len(posts') = Len(posts) + 1
                    /\ posts'[Len(posts')].url = url /\ posts'[Len(posts')].http = "pending"
          /\ posts' # posts => ProtocolUntouched
          /\ posts' = posts \/ Len(posts') = Len(posts) + 1
                \/ \E n \in DOMAIN posts :
                      /\ posts[n].http = "pending" /\ posts'[n].http # "pending"
                      /\ \A k \in DOMAIN posts : k # n => posts'[k] = posts[k]]_vars

\* with a status request pending on the open socket, one setURL() was
\* resolved and another rejected on a response that was not ok
C35_Witness ==
    /\ Len(posts) = 2
    /\ posts[1].out = "resolved" /\ posts[2].out = "rejected" /\ posts[2].http = "notok"
    /\ socket = 1 /\ sockets[1].rs = "OPEN"
    /\ \E i \in RpcFutures : futures[i].st = "pending"
    /\ Len(frames) = 2

====
